---- MODULE Spec2Model ----
(***************************************************************************)
(* A model of mewinfo.py: the hwmon sensor data model (generic discovery,  *)
(* the offset/scale derivation of ADC channels, the driver-name keyed      *)
(* extensions), its JSON and text renderings, and the top-level all-items  *)
(* run.                                                                    *)
(*                                                                         *)
(* Text is a sequence of one-character strings, so that globbing           *)
(* (prefix/suffix match), str.split('_') and str.lstrip('m') are computed  *)
(* on characters.  An optional value (Python's None or a value) is <<>> or *)
(* <<v>>.  A number is a tagged rational: an int has float = FALSE and     *)
(* den = 1; a float is kept as a reduced fraction (float rounding is not   *)
(* modelled).  A directory is a function from file names to contents.      *)
(***************************************************************************)
EXTENDS Integers, Sequences, FiniteSets, TLC

VARIABLES
    pc,        \* position of the operation under study
    hwmon,     \* the hwmon group directory given to Sensor.parse
    tree,      \* hwmon.resolve().parents, nearest first, with their siblings
    generic,   \* what Sensor._parse returned inside Sensor.parse, if reached
    result,    \* outcome of Sensor.parse
    iio,       \* the directory given to adc_value
    adc,       \* outcome of adc_value
    sensor,    \* the Sensor given to json() / __str__()
    rendered,  \* outcome of Sensor.json(), and its decoding
    text,      \* outcome of str(SensorValue) for each value of the sensor
    fails,     \* all-items run: how each item's parse() ends
    jsonMode,  \* all-items run: args.json
    idx,       \* all-items run: number of ITEMS entries already iterated
    data,      \* all-items run: the data dict, as its keys in insertion order
    out        \* all-items run: what was written to stdout, per item

vars == <<pc, hwmon, tree, generic, result, iio, adc, sensor, rendered, text,
          fails, jsonMode, idx, data, out>>

-----------------------------------------------------------------------------
(* Bounds of the model *)

MaxRaw == 2

MaxDepth == 2

MaxValues == 2

-----------------------------------------------------------------------------
(* Optional values and text *)

None == <<>>

Some(x) == <<x>>

StartsWith(s, p) == Len(s) >= Len(p) /\ SubSeq(s, 1, Len(p)) = p

EndsWith(s, p) == Len(s) >= Len(p) /\ SubSeq(s, Len(s) - Len(p) + 1, Len(s)) = p

\* str.split('_')[0]: the text before the first underscore
RECURSIVE SplitFirst(_)
SplitFirst(s) ==
    IF s = <<>> \/ Head(s) = "_" THEN <<>>
    ELSE <<Head(s)>> \o SplitFirst(Tail(s))

\* str.lstrip(c): every leading c removed
RECURSIVE LStrip(_, _)
LStrip(s, c) ==
    IF s # <<>> /\ Head(s) = c THEN LStrip(Tail(s), c) ELSE s

\* All enumerations of a finite set as a sequence (a glob's possible orders)
RECURSIVE Orders(_)
Orders(S) ==
    IF S = {} THEN {<<>>}
    ELSE UNION {{<<x>> \o o : o \in Orders(S \ {x})} : x \in S}

-----------------------------------------------------------------------------
(* Numbers: int | float *)

RECURSIVE GCD(_, _)
GCD(a, b) == IF b = 0 THEN a ELSE GCD(b, a % b)

Abs(n) == IF n < 0 THEN -n ELSE n

IntNum(n) == [float |-> FALSE, num |-> n, den |-> 1]

\* the float n/d, d > 0, as a reduced fraction
FloatNum(n, d) ==
    LET g == GCD(Abs(n), d)
    IN  [float |-> TRUE, num |-> n \div g, den |-> d \div g]

\* x * y where y is a float: the product is a float
NumTimes(x, y) == FloatNum(x.num * y.num, x.den * y.den)

\* x / n for an int n > 0: Python's true division always gives a float
NumDiv(x, n) == FloatNum(x.num, x.den * n)

-----------------------------------------------------------------------------
(* File contents.  <<"int", n>> is the decimal text of the integer n,      *)
(* <<"dec", n, d>> the decimal text of the non-integer n/d (such as 0.1),  *)
(* <<"str", s>> any other text s (already stripped).                       *)

IsFile(dir, name) == name \in DOMAIN dir

\* int(text): only integer text parses
ParsesInt(c) == c[1] = "int"

IntOf(c) == c[2]

\* float(text): integer and decimal text parse
ParsesFloat(c) == c[1] \in {"int", "dec"}

FloatOf(c) == IF c[1] = "int" THEN FloatNum(c[2], 1) ELSE FloatNum(c[2], c[3])

-----------------------------------------------------------------------------
(* adc_value *)

RAW == <<"_", "r", "a", "w">>

OFFSET == <<"_", "o", "f", "f", "s", "e", "t">>

SCALE == <<"_", "s", "c", "a", "l", "e">>

IN_TEMP == <<"i", "n", "_", "t", "e", "m", "p">>

AdcFail(status, reads) == [status |-> status, value |-> IntNum(0), reads |-> reads]

\* a plausible slip: the scale is applied before the offset is added
adc_value_ScaleFirst(dir, item) ==
    LET raw == item \o RAW
        off == item \o OFFSET
        sc  == item \o SCALE
    IN  IF ~IsFile(dir, raw) THEN AdcFail("FileNotFoundError", <<raw>>)
        ELSE IF ~ParsesInt(dir[raw]) THEN AdcFail("ValueError", <<raw>>)
        ELSE IF IsFile(dir, off) /\ ~ParsesInt(dir[off])
             THEN AdcFail("ValueError", <<raw, off>>)
        ELSE IF IsFile(dir, sc) /\ ~ParsesFloat(dir[sc])
             THEN AdcFail("ValueError", <<raw, off, sc>>)
        ELSE LET o  == IF IsFile(dir, off) THEN IntOf(dir[off]) ELSE 0
                 v0 == IntNum(IntOf(dir[raw]))
                 v1 == IF IsFile(dir, sc)
                       THEN LET p == NumTimes(v0, FloatOf(dir[sc]))
                            IN  FloatNum(p.num + o * p.den, p.den)
                       ELSE IntNum(v0.num + o)
             IN  [status |-> "ok", value |-> v1, reads |-> <<raw, off, sc>>]

\* adc_value(iio, item): the raw reading, plus the offset if the offset
\* file exists, times the scale if the scale file exists.  reads lists the
\* files the call tried to read, in order.
adc_value(dir, item) ==
    LET raw == item \o RAW
        off == item \o OFFSET
        sc  == item \o SCALE
    IN  IF ~IsFile(dir, raw) THEN AdcFail("FileNotFoundError", <<raw>>)
        ELSE IF ~ParsesInt(dir[raw]) THEN AdcFail("ValueError", <<raw>>)
        ELSE IF IsFile(dir, off) /\ ~ParsesInt(dir[off])
             THEN AdcFail("ValueError", <<raw, off>>)
        ELSE IF IsFile(dir, sc) /\ ~ParsesFloat(dir[sc])
             THEN AdcFail("ValueError", <<raw, off, sc>>)
        ELSE LET v0 == IntNum(IntOf(dir[raw]))
                 v1 == IF IsFile(dir, off)
                       THEN IntNum(v0.num + IntOf(dir[off]))
                       ELSE v0
                 v2 == IF IsFile(dir, sc)
                       THEN NumTimes(v1, FloatOf(dir[sc]))
                       ELSE v1
             IN  [status |-> "ok", value |-> v2, reads |-> <<raw, off, sc>>]

-----------------------------------------------------------------------------
(* SensorKind and SensorValue *)

\* the members of SensorKind, in definition order
Kinds ==
    <<"VOLTAGE", "FAN", "FAN_PWM", "TEMPERATURE", "CURRENT", "POWER",
      "ENERGY", "HUMIDITY", "ALARM">>

KindSet == {Kinds[i] : i \in 1..Len(Kinds)}

\* SensorKind.prefix
Prefix(kind) ==
    CASE kind = "VOLTAGE"     -> <<"i", "n">>
      [] kind = "FAN"         -> <<"f", "a", "n">>
      [] kind = "FAN_PWM"     -> <<"p", "w", "m">>
      [] kind = "TEMPERATURE" -> <<"t", "e", "m", "p">>
      [] kind = "CURRENT"     -> <<"c", "u", "r", "r">>
      [] kind = "POWER"       -> <<"p", "o", "w", "e", "r">>
      [] kind = "ENERGY"      -> <<"e", "n", "e", "r", "g", "y">>
      [] kind = "HUMIDITY"    -> <<"h", "u", "m", "i", "d", "i", "t", "y">>
      [] kind = "ALARM"       -> <<"a", "l", "a", "r", "m">>

\* SensorKind.unit; "deg" and "micro" stand for the characters U+00B0 and U+00B5
Unit(kind) ==
    CASE kind = "VOLTAGE"     -> Some(<<"m", "V">>)
      [] kind = "TEMPERATURE" -> Some(<<"m", "deg", "C">>)
      [] kind = "CURRENT"     -> Some(<<"m", "A">>)
      [] kind = "POWER"       -> Some(<<"micro", "W">>)
      [] kind = "ENERGY"      -> Some(<<"micro", "J">>)
      [] OTHER                -> None

\* SensorKind.name.lower()
KindLower(kind) ==
    CASE kind = "VOLTAGE"     -> <<"v", "o", "l", "t", "a", "g", "e">>
      [] kind = "FAN"         -> <<"f", "a", "n">>
      [] kind = "FAN_PWM"     -> <<"f", "a", "n", "_", "p", "w", "m">>
      [] kind = "TEMPERATURE" -> <<"t", "e", "m", "p", "e", "r", "a", "t", "u", "r", "e">>
      [] kind = "CURRENT"     -> <<"c", "u", "r", "r", "e", "n", "t">>
      [] kind = "POWER"       -> <<"p", "o", "w", "e", "r">>
      [] kind = "ENERGY"      -> <<"e", "n", "e", "r", "g", "y">>
      [] kind = "HUMIDITY"    -> <<"h", "u", "m", "i", "d", "i", "t", "y">>
      [] kind = "ALARM"       -> <<"a", "l", "a", "r", "m">>

SensorValue(label, kind, value) == [label |-> label, kind |-> kind, value |-> value]

-----------------------------------------------------------------------------
(* Sensor._parse *)

NAME == <<"n", "a", "m", "e">>

INPUT == <<"_", "i", "n", "p", "u", "t">>

LABEL == <<"_", "l", "a", "b", "e", "l">>

ALARM_SUFFIX == <<"_", "a", "l", "a", "r", "m">>

\* read_text().strip() of a file holding text
TextOf(c) == c[2]

\* Path.glob(prefix + '*' + suffix): the matching entries of the directory
Glob(dir, prefix, suffix) ==
    {n \in DOMAIN dir :
        /\ Len(n) >= Len(prefix) + Len(suffix)
        /\ StartsWith(n, prefix)
        /\ EndsWith(n, suffix)}

NoValue == SensorValue(None, "ALARM", IntNum(0))

Raised(v) == [err |-> TRUE, v |-> NoValue]

Parsed(v) == [err |-> FALSE, v |-> v]

\* a plausible slip: the offset file is not added to the reading
Channel_NoOffset(dir, v, kind) ==
    LET s   == SplitFirst(v)
        lab == s \o LABEL
        off == s \o OFFSET
    IN  IF ~ParsesInt(dir[v]) \/ (IsFile(dir, off) /\ ~ParsesInt(dir[off]))
        THEN Raised(v)
        ELSE Parsed(SensorValue(
                 IF IsFile(dir, lab) THEN Some(TextOf(dir[lab])) ELSE None,
                 kind, IntNum(IntOf(dir[v]))))

\* the body of the loop over the matches v of kind.prefix + '*_input':
\* the label file is optional, the reading is an int, the offset file is
\* optional and added to it.  No scale file is read.
Channel(dir, v, kind) ==
    LET s   == SplitFirst(v)
        lab == s \o LABEL
        off == s \o OFFSET
    IN  IF ~ParsesInt(dir[v]) \/ (IsFile(dir, off) /\ ~ParsesInt(dir[off]))
        THEN Raised(v)
        ELSE Parsed(SensorValue(
                 IF IsFile(dir, lab) THEN Some(TextOf(dir[lab])) ELSE None,
                 kind,
                 IntNum(IntOf(dir[v])
                        + (IF IsFile(dir, off) THEN IntOf(dir[off]) ELSE 0))))

\* the body of the loop over the matches a of '*_alarm'
Alarm(dir, a) ==
    IF ~ParsesInt(dir[a]) THEN Raised(a)
    ELSE Parsed(SensorValue(Some(a), "ALARM", IntNum(IntOf(dir[a]))))

\* the first loop, from the i-th kind on: every sequence of loop results a
\* run can produce (a glob yields its matches in directory order, which is
\* not specified)
RECURSIVE PrefixEntries(_, _)
PrefixEntries(dir, i) ==
    IF i > Len(Kinds) THEN {<<>>}
    ELSE {[j \in 1..Len(o) |-> Channel(dir, o[j], Kinds[i])] \o rest :
             o \in Orders(Glob(dir, Prefix(Kinds[i]), INPUT)),
             rest \in PrefixEntries(dir, i + 1)}

\* the second loop
AlarmEntries(dir) ==
    {[j \in 1..Len(o) |-> Alarm(dir, o[j])] :
        o \in Orders(Glob(dir, <<>>, ALARM_SUFFIX))}

Failure(status) ==
    [status |-> status,
     sensor |-> [cls |-> "Sensor", name |-> <<>>, values |-> <<>>]]

Success(cls, name, values) ==
    [status |-> "ok", sensor |-> [cls |-> cls, name |-> name, values |-> values]]

\* Sensor._parse(hwmon, name): every outcome a run can produce
ParseOutcomes(dir, name) ==
    {IF \E j \in 1..Len(es) : es[j].err
     THEN Failure("ValueError")
     ELSE Success("Sensor", name, [j \in 1..Len(es) |-> es[j].v]) :
        es \in {p \o a : p \in PrefixEntries(dir, 1), a \in AlarmEntries(dir)}}

-----------------------------------------------------------------------------
(* The extensions *)

AXP20X_BATTERY ==
    <<"a", "x", "p", "2", "0", "x", "_", "b", "a", "t", "t", "e", "r", "y">>

RPI_VOLT == <<"r", "p", "i", "_", "v", "o", "l", "t">>

IN0_LCRIT_ALARM ==
    <<"i", "n", "0", "_", "l", "c", "r", "i", "t", "_", "a", "l", "a", "r", "m">>

LOW_VOLTAGE_ALARM ==
    <<"l", "o", "w", " ", "v", "o", "l", "t", "a", "g", "e", " ", "a", "l", "a", "r", "m">>

\* Axp20Battery._POWER_SUPPLY, _DRIVER
POWER_SUPPLY == "axp20x-battery-power-supply"

DRIVER == "axp20x-rsb"

\* The attributes found on the classes Sensor, Axp20Battery and RpiVoltage.
\* Of the dataclass fields only _SPECIAL has a default; name and values have
\* none, so they exist on instances only.
ClassAttrs ==
    {"_SPECIAL", "_POWER_SUPPLY", "_DRIVER", "_ADC", "_parse", "parse",
     "json", "extend"}

\* raise SensorNotSupported(cls.name, base.name): the arguments are
\* evaluated before the exception is built
RaiseNotSupported ==
    IF "name" \in ClassAttrs THEN Failure("SensorNotSupported")
    ELSE Failure("AttributeError")

MaxOf(S) == CHOOSE x \in S : \A y \in S : y <= x

MinOf(S) == CHOOSE x \in S : \A y \in S : x <= y

\* a plausible slip: the temperature is inserted in front of the values
Axp20Battery_extend_Prepend(tr, base) ==
    LET found == {i \in 1..Len(tr) : tr[i].name = POWER_SUPPLY}
    IN  IF found = {} THEN RaiseNotSupported
        ELSE LET battery == tr[MaxOf(found)]
             IN  IF battery.driver # DRIVER THEN RaiseNotSupported
                 ELSE IF battery.adc = <<>> THEN RaiseNotSupported
                 ELSE LET t == adc_value(Head(battery.adc), IN_TEMP)
                      IN  IF t.status # "ok" THEN Failure(t.status)
                          ELSE Success("Axp20Battery", base.name,
                                   <<SensorValue(None, "TEMPERATURE", t.value)>>
                                   \o base.values)

\* Axp20Battery.extend.  tr lists hwmon.resolve().parents, nearest first;
\* each entry b carries b.name, the name (b.parent / 'driver') resolves to,
\* and the matches of (b.parent / 'axp813-adc').glob('iio:device*') in glob
\* order.  The loop has no break, so the last (outermost) match is kept.
Axp20Battery_extend(tr, base) ==
    LET found == {i \in 1..Len(tr) : tr[i].name = POWER_SUPPLY}
    IN  IF found = {} THEN RaiseNotSupported
        ELSE LET battery == tr[MaxOf(found)]
             IN  IF battery.driver # DRIVER THEN RaiseNotSupported
                 ELSE IF battery.adc = <<>> THEN RaiseNotSupported
                 ELSE LET t == adc_value(Head(battery.adc), IN_TEMP)
                      IN  IF t.status # "ok" THEN Failure(t.status)
                          ELSE Success("Axp20Battery", base.name,
                                   Append(base.values,
                                          SensorValue(None, "TEMPERATURE", t.value)))

\* a plausible slip: the relabelled copy is appended but the original is
\* not removed
RpiVoltage_extend_NoRemove(base) ==
    LET vs   == base.values
        hits == {i \in 1..Len(vs) : vs[i].label = Some(IN0_LCRIT_ALARM)}
    IN  IF vs = <<>> THEN Failure("UnboundLocalError")
        ELSE LET i == IF hits # {} THEN MinOf(hits) ELSE Len(vs)
             IN  Success("RpiVoltage", base.name,
                     Append(vs, [vs[i] EXCEPT !.label = Some(LOW_VOLTAGE_ALARM)]))

\* RpiVoltage.extend.  After the loop a is the first value with the label
\* (break), or the last value when none has it, or unbound when there is no
\* value at all; list.remove(a) removes the first value equal to a.
RpiVoltage_extend(base) ==
    LET vs   == base.values
        hits == {i \in 1..Len(vs) : vs[i].label = Some(IN0_LCRIT_ALARM)}
    IN  IF vs = <<>> THEN Failure("UnboundLocalError")
        ELSE LET i     == IF hits # {} THEN MinOf(hits) ELSE Len(vs)
                 a     == vs[i]
                 alarm == [a EXCEPT !.label = Some(LOW_VOLTAGE_ALARM)]
                 k     == MinOf({j \in 1..Len(vs) : vs[j] = a})
             IN  Success("RpiVoltage", base.name,
                     Append(SubSeq(vs, 1, k - 1) \o SubSeq(vs, k + 1, Len(vs)),
                            alarm))

\* Sensor._SPECIAL
SPECIAL == {AXP20X_BATTERY, RPI_VOLT}

\* cls._SPECIAL[name].extend(hwmon, sensor)
Extend(name, tr, base) ==
    IF name = AXP20X_BATTERY THEN Axp20Battery_extend(tr, base)
    ELSE RpiVoltage_extend(base)

\* Sensor.parse after _parse returned g: the extension registered for the
\* name is tried, SensorNotSupported falls back to the generic sensor, any
\* other exception propagates
Dispatch(tr, g) ==
    IF g.sensor.name \in SPECIAL
    THEN LET e == Extend(g.sensor.name, tr, g.sensor)
         IN  IF e.status = "SensorNotSupported" THEN g ELSE e
    ELSE g

-----------------------------------------------------------------------------
(* Directories *)

Opt(S) == {None} \cup {Some(x) : x \in S}

\* a directory holding file name with content c[1], or nothing when c = None
File(name, c) == IF c = None THEN <<>> ELSE name :> c[1]

NoText == <<"str", <<>>>>

-----------------------------------------------------------------------------
(* Idle values of the variables an operation does not use *)

NoDir == <<>>

NoAdc == AdcFail("idle", <<>>)

NoSensor == [cls |-> "Sensor", name |-> <<>>, values |-> <<>>]

NoResult == [status |-> "idle", sensor |-> NoSensor]

IdleParse ==
    /\ hwmon = NoDir /\ tree = <<>> /\ generic = None /\ result = NoResult

IdleAdc == iio = NoDir /\ adc = NoAdc

IdleRender == sensor = NoSensor /\ rendered = None /\ text = None

IdleAll ==
    /\ fails = <<>> /\ jsonMode = FALSE /\ idx = 0 /\ data = <<>> /\ out = <<>>

-----------------------------------------------------------------------------
(* SpecAdc: adc_value applied to one ADC device directory *)

AdcInts == (-MaxRaw)..MaxRaw

RawContents == {<<"int", n>> : n \in AdcInts} \cup {NoText}

OffsetContents == RawContents \cup {<<"dec", 1, 2>>}

ScaleContents == {<<"int", 2>>, <<"dec", 1, 10>>, <<"dec", 5, 2>>, NoText}

AdcDirs ==
    {File(IN_TEMP \o RAW, r) @@ File(IN_TEMP \o OFFSET, o) @@ File(IN_TEMP \o SCALE, s) :
        r \in Opt(RawContents), o \in Opt(OffsetContents), s \in Opt(ScaleContents)}

InitAdc ==
    /\ pc = "start"
    /\ iio \in AdcDirs
    /\ adc = NoAdc
    /\ IdleParse /\ IdleRender /\ IdleAll

AdcValue ==
    /\ pc = "start"
    /\ adc' = adc_value(iio, IN_TEMP)
    /\ pc' = "done"
    /\ UNCHANGED <<hwmon, tree, generic, result, iio, sensor, rendered, text,
                   fails, jsonMode, idx, data, out>>

NextAdc == AdcValue

SpecAdc == InitAdc /\ [][NextAdc]_vars

-----------------------------------------------------------------------------
(* Spec: Sensor.parse applied to one hwmon group directory *)

MaxReading == 1

Readings == 0..MaxReading

CPU_THERMAL == <<"c", "p", "u", "_", "t", "h", "e", "r", "m", "a", "l">>

IN0 == <<"i", "n", "0">>

IN1 == <<"i", "n", "1">>

TEMP1 == <<"t", "e", "m", "p", "1">>

ALARM1 == <<"a", "l", "a", "r", "m", "1">>

IntTexts(S) == {<<"int", n>> : n \in S}

Texts(S) == {<<"str", t>> : t \in S}

\* the hwmon directories of a generic or rpi_volt group, and of an
\* axp20x_battery group outside its expected device tree
GenericDirs ==
    {File(NAME, n) @@ File(IN0 \o INPUT, i0) @@ File(IN0 \o LABEL, l0)
       @@ File(IN0 \o OFFSET, o0) @@ File(IN0 \o SCALE, s0)
       @@ File(IN1 \o INPUT, i1) @@ File(TEMP1 \o INPUT, t1)
       @@ File(IN0_LCRIT_ALARM, la) @@ File(ALARM1 \o INPUT, a1) :
        n  \in Opt(Texts({CPU_THERMAL, RPI_VOLT, AXP20X_BATTERY})),
        i0 \in Opt(IntTexts(Readings) \cup {NoText}),
        l0 \in Opt(Texts({<<>>, IN0_LCRIT_ALARM, LOW_VOLTAGE_ALARM})),
        o0 \in Opt(IntTexts({3}) \cup {NoText}),
        s0 \in Opt(IntTexts({2})),
        i1 \in Opt(IntTexts({1})),
        t1 \in Opt(IntTexts({45000})),
        la \in Opt(IntTexts(Readings)),
        a1 \in Opt(IntTexts({1}))}

\* the hwmon directories of an axp20x_battery group
AxpDirs ==
    {File(NAME, Some(<<"str", AXP20X_BATTERY>>)) @@ File(IN0 \o INPUT, i0)
       @@ File(TEMP1 \o INPUT, t1) :
        i0 \in Opt(IntTexts(Readings) \cup {NoText}),
        t1 \in Opt(IntTexts({45000}))}

\* the ADC device directories
IioDirs ==
    {File(IN_TEMP \o RAW, r) @@ File(IN_TEMP \o OFFSET, o) @@ File(IN_TEMP \o SCALE, s) :
        r \in Opt(IntTexts({250})),
        o \in Opt(IntTexts({-50})),
        s \in Opt({<<"dec", 1, 10>>})}

Ancestors ==
    {[name |-> "hwmon", driver |-> "driver", adc |-> <<>>]}
    \cup {[name |-> POWER_SUPPLY, driver |-> d, adc |-> a] :
            d \in {DRIVER, "axp20x-i2c"},
            a \in {<<>>} \cup {<<x>> : x \in IioDirs}}

Trees == UNION {[1..n -> Ancestors] : n \in 0..MaxDepth}

Init ==
    /\ pc = "start"
    /\ \/ hwmon \in GenericDirs /\ tree = <<>>
       \/ hwmon \in AxpDirs /\ tree \in Trees
    /\ generic = None
    /\ result = NoResult
    /\ IdleAdc /\ IdleRender /\ IdleAll

\* Sensor.parse(hwmon): the name file is read first, then _parse, then the
\* extension registered for the name.  generic keeps what _parse returned.
SensorParse ==
    /\ pc = "start"
    /\ pc' = "done"
    /\ IF ~IsFile(hwmon, NAME)
       THEN generic' = None /\ result' = Failure("FileNotFoundError")
       ELSE \E g \in ParseOutcomes(hwmon, TextOf(hwmon[NAME])) :
              IF g.status # "ok"
              THEN generic' = None /\ result' = g
              ELSE generic' = Some(g.sensor) /\ result' = Dispatch(tree, g)
    /\ UNCHANGED <<hwmon, tree, iio, adc, sensor, rendered, text,
                   fails, jsonMode, idx, data, out>>

Next == SensorParse

Spec == Init /\ [][Next]_vars

-----------------------------------------------------------------------------
(* Properties of Sensor.parse (Spec) *)

Parsed_ == pc = "done" /\ generic # None

\* the generic sensor and the returned sensor
G == generic[1]

R == result.sensor

Returned == result.status = "ok"

Labelled(vs, l) == {j \in 1..Len(vs) : vs[j].label = Some(l)}

OfKind(vs, k) == {j \in 1..Len(vs) : vs[j].kind = k}

\* the values of vs whose label is not l, in order
RECURSIVE Without(_, _)
Without(vs, l) ==
    IF vs = <<>> THEN <<>>
    ELSE IF Head(vs).label = Some(l) THEN Without(Tail(vs), l)
    ELSE <<Head(vs)>> \o Without(Tail(vs), l)

\* no ancestor passes all three checks of the battery extension
TopologyFails ==
    ~\E i \in 1..Len(tree) :
        /\ tree[i].name = POWER_SUPPLY
        /\ tree[i].driver = DRIVER
        /\ tree[i].adc # <<>>

\* C1: when the name is registered (axp20x_battery) and the topology
\* precondition fails, Sensor.parse returns the generic sensor (same name,
\* same values in the same order) and no error reaches the caller.
C1_FallsBackToGeneric ==
    (Parsed_ /\ G.name = AXP20X_BATTERY /\ TopologyFails)
        => (Returned /\ R = G)

\* the channel files of kind k, and what the offset and scale files of a
\* channel file v hold
ChannelFiles(k) == Glob(hwmon, Prefix(k), INPUT)

OffsetAt(v) ==
    IF IsFile(hwmon, SplitFirst(v) \o OFFSET)
    THEN IntOf(hwmon[SplitFirst(v) \o OFFSET]) ELSE 0

HasScale(v) == IsFile(hwmon, SplitFirst(v) \o SCALE)

ScaleAt(v) == FloatOf(hwmon[SplitFirst(v) \o SCALE])

\* (r + o) * s, a missing offset taken as 0 and a missing scale as 1
OffsetAndScale(v) ==
    IF HasScale(v)
    THEN NumTimes(IntNum(IntOf(hwmon[v]) + OffsetAt(v)), ScaleAt(v))
    ELSE IntNum(IntOf(hwmon[v]) + OffsetAt(v))

\* r + o, a missing offset taken as 0
OffsetOnly(v) == IntNum(IntOf(hwmon[v]) + OffsetAt(v))

RecordedValues(k) == {G.values[j].value : j \in OfKind(G.values, k)}

C4_FailsWithoutAlarm ==
    (Parsed_ /\ G.name = RPI_VOLT /\ Labelled(G.values, IN0_LCRIT_ALARM) = {})
        => ~Returned

RelabelledAsClaimed ==
    /\ Returned
    /\ R.name = G.name
    /\ Len(R.values) = Len(G.values)
    /\ Labelled(R.values, IN0_LCRIT_ALARM) = {}
    /\ Cardinality(Labelled(R.values, LOW_VOLTAGE_ALARM)) = 1
    /\ \A i \in Labelled(R.values, LOW_VOLTAGE_ALARM) :
         \A j \in Labelled(G.values, IN0_LCRIT_ALARM) :
            /\ R.values[i].kind = G.values[j].kind
            /\ R.values[i].value = G.values[j].value
    /\ Without(R.values, LOW_VOLTAGE_ALARM) = Without(G.values, IN0_LCRIT_ALARM)

\* C5 as claimed: applied to an rpi_volt sensor that contains a value
\* labelled in0_lcrit_alarm, the extension returns a sensor of the same name
\* and length with no value labelled in0_lcrit_alarm, exactly one labelled
\* 'low voltage alarm' with the original's kind and value, and every other
\* value unchanged and in the same relative order.
C5_Relabels ==
    (Parsed_ /\ G.name = RPI_VOLT /\ Labelled(G.values, IN0_LCRIT_ALARM) # {})
        => RelabelledAsClaimed

\* C5 amended: the same, for an rpi_volt sensor that contains exactly one
\* value labelled in0_lcrit_alarm and none already labelled
\* 'low voltage alarm'.
C5_RelabelsTheOnlyAlarm ==
    (/\ Parsed_ /\ G.name = RPI_VOLT
     /\ Cardinality(Labelled(G.values, IN0_LCRIT_ALARM)) = 1
     /\ Labelled(G.values, LOW_VOLTAGE_ALARM) = {})
        => RelabelledAsClaimed

\* reached: an rpi_volt sensor of three or more values, one of them the
\* alarm, is returned with the relabelled copy last
C5_Witness ==
    /\ Parsed_ /\ G.name = RPI_VOLT /\ Returned
    /\ Cardinality(Labelled(G.values, IN0_LCRIT_ALARM)) = 1
    /\ Labelled(G.values, LOW_VOLTAGE_ALARM) = {}
    /\ Len(G.values) >= 3
    /\ R.values[Len(R.values)].label = Some(LOW_VOLTAGE_ALARM)

\* the ancestor the battery extension settles on, and its ADC reading
Battery == tree[MaxOf({i \in 1..Len(tree) : tree[i].name = POWER_SUPPLY})]

ExtensionApplies ==
    /\ \E i \in 1..Len(tree) : tree[i].name = POWER_SUPPLY
    /\ Battery.driver = DRIVER
    /\ Battery.adc # <<>>

AdcTemp == adc_value(Head(Battery.adc), IN_TEMP)

\* C6: when the battery extension finds its preconditions satisfied, the
\* sensor Sensor.parse returns has the generic name and the generic values
\* unchanged and in order, followed by exactly one unlabelled TEMPERATURE
\* value holding adc_value(iio, 'in_temp').
C6_AppendsTemperature ==
    (Parsed_ /\ G.name = AXP20X_BATTERY /\ ExtensionApplies)
        => /\ Returned <=> AdcTemp.status = "ok"
           /\ Returned =>
                /\ R.name = G.name
                /\ R.values = G.values
                      \o <<SensorValue(None, "TEMPERATURE", AdcTemp.value)>>

\* reached: two nested power-supply ancestors, two generic values, and the
\* temperature (250 - 50) * 0.1 appended
C6_Witness ==
    /\ Parsed_ /\ G.name = AXP20X_BATTERY /\ ExtensionApplies /\ Returned
    /\ Len(G.values) = 2
    /\ Len(tree) = 2 /\ tree[1].name = POWER_SUPPLY /\ tree[2].name = POWER_SUPPLY
    /\ R.values[3].value = FloatNum(20, 1)

AlarmFiles == {a \in DOMAIN hwmon : EndsWith(a, ALARM_SUFFIX)}

\* C10: in every generic sensor the ALARM values are exactly the *_alarm
\* files, each labelled with the file's full name and holding its integer
\* content; no <prefix>*_input file yields an ALARM value; and the ALARM
\* values come after all other values.
C10_AlarmsAreAlarmFiles ==
    Parsed_ =>
        /\ Cardinality(OfKind(G.values, "ALARM")) = Cardinality(AlarmFiles)
        /\ {G.values[j] : j \in OfKind(G.values, "ALARM")}
              = {SensorValue(Some(a), "ALARM", IntNum(IntOf(hwmon[a]))) :
                    a \in AlarmFiles}
        /\ \A i, j \in 1..Len(G.values) :
              (i < j /\ G.values[i].kind = "ALARM") => G.values[j].kind = "ALARM"

-----------------------------------------------------------------------------
(* Properties of adc_value (SpecAdc) *)

RawFile == IN_TEMP \o RAW

OffsetFile == IN_TEMP \o OFFSET

ScaleFile == IN_TEMP \o SCALE

\* the raw file holds an integer, and the offset and scale files, where
\* present, hold an integer and a number
WellFormedAdc ==
    /\ IsFile(iio, RawFile) /\ ParsesInt(iio[RawFile])
    /\ IsFile(iio, OffsetFile) => ParsesInt(iio[OffsetFile])
    /\ IsFile(iio, ScaleFile) => ParsesFloat(iio[ScaleFile])

\* C2: adc_value gives raw with neither file, raw + offset (an int) with
\* only the offset file, (raw + offset) * scale with both, raw * scale with
\* only the scale file; a missing offset or scale file is no error; a
\* missing raw file fails the call before the offset or scale is read.
C2_Composition ==
    pc = "done" =>
        /\ ~IsFile(iio, RawFile) =>
              /\ adc.status = "FileNotFoundError"
              /\ adc.reads = <<RawFile>>
        /\ WellFormedAdc =>
              LET r == IntOf(iio[RawFile])
                  o == IntOf(iio[OffsetFile])
                  s == FloatOf(iio[ScaleFile])
              IN  /\ adc.status = "ok"
                  /\ adc.value =
                       CASE ~IsFile(iio, OffsetFile) /\ ~IsFile(iio, ScaleFile)
                              -> [float |-> FALSE, num |-> r, den |-> 1]
                         [] IsFile(iio, OffsetFile) /\ ~IsFile(iio, ScaleFile)
                              -> [float |-> FALSE, num |-> r + o, den |-> 1]
                         [] IsFile(iio, OffsetFile) /\ IsFile(iio, ScaleFile)
                              -> FloatNum((r + o) * s.num, s.den)
                         [] ~IsFile(iio, OffsetFile) /\ IsFile(iio, ScaleFile)
                              -> FloatNum(r * s.num, s.den)

\* reached: offset 1 and a scale are present and the result is 3/10
C2_Witness ==
    /\ pc = "done" /\ WellFormedAdc /\ adc.status = "ok"
    /\ IsFile(iio, OffsetFile) /\ IntOf(iio[OffsetFile]) = 1
    /\ IsFile(iio, ScaleFile)
    /\ adc.value = FloatNum(3, 10)

-----------------------------------------------------------------------------
(* SpecRender: Sensor.json and Sensor.__str__ applied to a Sensor *)

\* a plausible slip: the label is left out of the structure
SensorValue_json_NoLabel(v) ==
    [type |-> KindLower(v.kind), value |-> v.value]
    @@ (IF Unit(v.kind) \notin {None, Some(<<>>)}
        THEN [unit |-> Unit(v.kind)[1]] ELSE <<>>)

\* SensorValue.json: 'unit' and 'label' are set only when truthy (neither
\* None nor empty)
SensorValue_json(v) ==
    [type |-> KindLower(v.kind), value |-> v.value]
    @@ (IF Unit(v.kind) \notin {None, Some(<<>>)}
        THEN [unit |-> Unit(v.kind)[1]] ELSE <<>>)
    @@ (IF v.label \notin {None, Some(<<>>)}
        THEN [label |-> v.label[1]] ELSE <<>>)

\* Sensor.json
Sensor_json(s) ==
    [name |-> s.name,
     values |-> [i \in 1..Len(s.values) |-> SensorValue_json(s.values[i])]]

\* a plausible slip: every value that has a unit is divided by 1000
SensorValue_str_DivideAll(v) ==
    LET unit  == Unit(v.kind)
        shown == IF unit # None THEN LStrip(unit[1], "m") ELSE <<>>
    IN  [name   |-> IF v.label \notin {None, Some(<<>>)}
                    THEN v.label[1] ELSE KindLower(v.kind),
         number |-> IF unit # None THEN NumDiv(v.value, 1000) ELSE v.value,
         unit   |-> shown]

\* SensorValue.__str__: the three fields of '<name>: <number> <unit>'.  A
\* unit that starts with 'm' has the value divided by 1000 and its leading
\* 'm' stripped; 'label or ...' and 'unit or ...' fall back on None and on
\* the empty string.
SensorValue_str(v) ==
    LET unit  == Unit(v.kind)
        milli == unit # None /\ StartsWith(unit[1], <<"m">>)
        shown == IF milli THEN LStrip(unit[1], "m")
                 ELSE IF unit # None THEN unit[1] ELSE <<>>
    IN  [name   |-> IF v.label \notin {None, Some(<<>>)}
                    THEN v.label[1] ELSE KindLower(v.kind),
         number |-> IF milli THEN NumDiv(v.value, 1000) ELSE v.value,
         unit   |-> shown]

\* Sensor.__str__: 'Sensor <name>:' and one line per value
Sensor_str(s) ==
    [name |-> s.name,
     lines |-> [i \in 1..Len(s.values) |-> SensorValue_str(s.values[i])]]

RenderLabels == {None, Some(<<>>), Some(IN0_LCRIT_ALARM)}

RenderNumbers == {IntNum(45000), FloatNum(5, 2)}

SensorValues ==
    {SensorValue(l, k, n) : l \in RenderLabels, k \in KindSet, n \in RenderNumbers}

Sensors ==
    {[cls |-> "Sensor", name |-> CPU_THERMAL, values |-> vs] :
        vs \in UNION {[1..n -> SensorValues] : n \in 0..MaxValues}}

InitRender ==
    /\ pc = "start"
    /\ sensor \in Sensors
    /\ rendered = None
    /\ text = None
    /\ IdleParse /\ IdleAdc /\ IdleAll

SensorJson ==
    /\ pc = "start"
    /\ pc' = "json"
    /\ rendered' = Some(Sensor_json(sensor))
    /\ UNCHANGED <<hwmon, tree, generic, result, iio, adc, sensor, text,
                   fails, jsonMode, idx, data, out>>

SensorStr ==
    /\ pc = "start"
    /\ pc' = "str"
    /\ text' = Some(Sensor_str(sensor))
    /\ UNCHANGED <<hwmon, tree, generic, result, iio, adc, sensor, rendered,
                   fails, jsonMode, idx, data, out>>

NextRender == SensorJson \/ SensorStr

SpecRender == InitRender /\ [][NextRender]_vars

-----------------------------------------------------------------------------
(* Properties of the renderings (SpecRender) *)

Tuples(vs) == {vs[i] : i \in 1..Len(vs)}

\* the decoder of the round trip: it reads back what the structure holds;
\* the kind is found by its lowercase name, a missing 'label' key gives no
\* label
DecodeValue(d) ==
    SensorValue(IF "label" \in DOMAIN d THEN Some(d.label) ELSE None,
                CHOOSE k \in KindSet : KindLower(k) = d.type,
                d.value)

Decode(j) ==
    [name |-> j.name,
     values |-> [i \in 1..Len(j.values) |-> DecodeValue(j.values[i])]]

\* C8 as claimed: for every Sensor, decoding Sensor.json reproduces the
\* name and the set of (label, kind, value) tuples.
C8_RoundTrip ==
    pc = "json" =>
        /\ Decode(rendered[1]).name = sensor.name
        /\ Tuples(Decode(rendered[1]).values) = Tuples(sensor.values)

\* an empty label read as no label
NoEmptyLabel(v) == IF v.label = Some(<<>>) THEN [v EXCEPT !.label = None] ELSE v

\* C8 amended: decoding Sensor.json reproduces the name and the set of
\* (label, kind, value) tuples for every Sensor whose labels are absent or
\* non-empty; a value whose label is the empty string decodes with no label.
C8_RoundTripNonEmptyLabels ==
    pc = "json" =>
        /\ Decode(rendered[1]).name = sensor.name
        /\ Tuples(Decode(rendered[1]).values)
              = {NoEmptyLabel(v) : v \in Tuples(sensor.values)}
        /\ (\A v \in Tuples(sensor.values) : v.label # Some(<<>>))
              => Tuples(Decode(rendered[1]).values) = Tuples(sensor.values)

\* reached: a labelled int value and an unlabelled float value round-trip
C8_Witness ==
    /\ pc = "json"
    /\ Len(sensor.values) = 2
    /\ sensor.values[1].label = Some(IN0_LCRIT_ALARM)
    /\ sensor.values[1].kind = "TEMPERATURE"
    /\ sensor.values[2].label = None
    /\ sensor.values[2].value.float
    /\ Tuples(Decode(rendered[1]).values) = Tuples(sensor.values)

\* the number and unit the claim gives for each kind
ShownAsClaimed(v, line) ==
    /\ v.kind \in {"VOLTAGE", "TEMPERATURE", "CURRENT"} =>
          /\ line.number.num * v.value.den * 1000 = v.value.num * line.number.den
          /\ line.unit = CASE v.kind = "VOLTAGE"     -> <<"V">>
                           [] v.kind = "TEMPERATURE" -> <<"deg", "C">>
                           [] v.kind = "CURRENT"     -> <<"A">>
    /\ v.kind \in {"POWER", "ENERGY"} =>
          /\ line.number = v.value
          /\ line.unit = (IF v.kind = "POWER" THEN <<"micro", "W">>
                          ELSE <<"micro", "J">>)
    /\ v.kind \in {"FAN", "FAN_PWM", "HUMIDITY", "ALARM"} =>
          /\ line.number = v.value
          /\ line.unit = <<>>

\* C9 as claimed: milli-unit kinds show value/1000 with the prefix
\* stripped, micro-unit kinds show the value undivided with the unit kept,
\* unitless kinds show the value with no unit, and the displayed name is the
\* label, or the kind's lowercase name when the label is absent.
C9_UnitAwareText ==
    pc = "str" =>
        \A i \in 1..Len(sensor.values) :
            LET v == sensor.values[i]
                line == text[1].lines[i]
            IN  /\ ShownAsClaimed(v, line)
                /\ line.name = (IF v.label = None THEN KindLower(v.kind)
                                ELSE v.label[1])

\* C9 amended: the same, except that the displayed name is the kind's
\* lowercase name when the label is absent or the empty string.
C9_UnitAwareTextEmptyLabel ==
    pc = "str" =>
        \A i \in 1..Len(sensor.values) :
            LET v == sensor.values[i]
                line == text[1].lines[i]
            IN  /\ ShownAsClaimed(v, line)
                /\ line.name = (IF v.label = None \/ v.label = Some(<<>>)
                                THEN KindLower(v.kind) ELSE v.label[1])

\* reached: 45000 m degC shown as 45.0, and a POWER value with an empty label
C9_Witness ==
    /\ pc = "str"
    /\ Len(sensor.values) = 2
    /\ sensor.values[1] = SensorValue(None, "TEMPERATURE", IntNum(45000))
    /\ text[1].lines[1].number = FloatNum(45, 1)
    /\ sensor.values[2].kind = "POWER"
    /\ sensor.values[2].label = Some(<<>>)

-----------------------------------------------------------------------------
(* SpecAll: the top-level all-items run, _all *)

\* the keys of ITEMS, in insertion order
ITEMS == <<"uname", "system", "uptime", "cpufreq", "memory", "hwmon">>

ItemSet == {ITEMS[i] : i \in 1..Len(ITEMS)}

\* how cls.parse() can end for each item: Uname.parse reads no file; the
\* others read files that may be missing or malformed; Hwmon.parse also
\* passes on what Sensor.parse raises
ParseEnds(item) ==
    CASE item = "uname"   -> {"ok"}
      [] item = "system"  -> {"ok", "FileNotFoundError"}
      [] item = "uptime"  -> {"ok", "FileNotFoundError", "ValueError"}
      [] item = "cpufreq" -> {"ok", "FileNotFoundError", "ValueError"}
      [] item = "memory"  -> {"ok", "FileNotFoundError"}
      [] item = "hwmon"   -> {"ok", "FileNotFoundError", "ValueError",
                              "AttributeError", "UnboundLocalError"}

NoOutput == [form |-> "none", items |-> <<>>, terminator |-> FALSE]

InitAll ==
    /\ pc = "loop"
    /\ fails \in {f \in [ItemSet -> UNION {ParseEnds(i) : i \in ItemSet}] :
                    \A i \in ItemSet : f[i] \in ParseEnds(i)}
    /\ jsonMode \in BOOLEAN
    /\ idx = 0
    /\ data = <<>>
    /\ out = NoOutput
    /\ IdleParse /\ IdleAdc /\ IdleRender

\* a plausible slip: every exception of parse() is swallowed
AllParseStep_CatchAll(end) ==
    IF end = "ok" THEN "stored" ELSE "skipped"

\* one iteration of the loop: data[name] = cls.parse(), a
\* FileNotFoundError is passed over, any other exception leaves _all
AllParseStep(end) ==
    IF end = "ok" THEN "stored"
    ELSE IF end = "FileNotFoundError" THEN "skipped"
    ELSE "raised"

AllParse ==
    /\ pc = "loop"
    /\ idx < Len(ITEMS)
    /\ LET name == ITEMS[idx + 1]
           step == AllParseStep(fails[name])
       IN  /\ idx' = idx + 1
           /\ data' = IF step = "stored" THEN Append(data, name) ELSE data
           /\ pc' = IF step = "raised" THEN "aborted" ELSE "loop"
    /\ UNCHANGED <<hwmon, tree, generic, result, iio, adc, sensor, rendered,
                   text, fails, jsonMode, out>>

\* after the loop: one JSON document of data, or each item of data printed
\* in order followed by the terminator line
AllRender ==
    /\ pc = "loop"
    /\ idx = Len(ITEMS)
    /\ out' = IF jsonMode
              THEN [form |-> "json", items |-> data, terminator |-> FALSE]
              ELSE [form |-> "text", items |-> data, terminator |-> TRUE]
    /\ pc' = "done"
    /\ UNCHANGED <<hwmon, tree, generic, result, iio, adc, sensor, rendered,
                   text, fails, jsonMode, idx, data>>

NextAll == AllParse \/ AllRender

SpecAll == InitAll /\ [][NextAll]_vars

-----------------------------------------------------------------------------
(* Properties of the all-items run (SpecAll) *)

\* the items of s whose parse does not raise FileNotFoundError, in order
RECURSIVE Present(_)
Present(s) ==
    IF s = <<>> THEN <<>>
    ELSE IF fails[Head(s)] = "FileNotFoundError" THEN Present(Tail(s))
    ELSE <<Head(s)>> \o Present(Tail(s))

OtherError == \E i \in ItemSet : fails[i] \notin {"ok", "FileNotFoundError"}

====
